---- MODULE Spec2Model ----
(***************************************************************************)
(* State-machine model of two scripts of the repository:                   *)
(*   - DataCleaner (src/scriptes/data_cleaner.py): the cleaning pipeline   *)
(*     clean_data = impute_missing_values; knn_imputation;                 *)
(*     handle_outliers; convert_data_types; generate_cleaning_report;      *)
(*     save_cleaned_data.                        Specification: Spec       *)
(*   - split_csv (src/split_csv.py): primary path and chunked fallback.    *)
(*                                               Specification: SplitSpec  *)
(*                                                                         *)
(* Numbers.  A float64 cell is an integer counting units of 1/Scale, so    *)
(* that means, interpolated quartiles and 1.5*IQR bounds of the modelled   *)
(* inputs are exact; rounding of binary floating point is not modelled.    *)
(* NaN, +inf and -inf are three reserved integers with IEEE-754 rules      *)
(* (FAdd, FMul, FLt ...).                                                  *)
(*                                                                         *)
(* pandas/numpy/sklearn semantics are those of the releases the scripts    *)
(* were written for (pandas 1.3 - 2.x, numpy >= 1.22): Series.fillna(...,  *)
(* inplace=True) on df[col] writes through to the frame, .loc assignment   *)
(* of a float into a numeric column upcasts and never raises.              *)
(*                                                                         *)
(* Input domain.  Column names never contain "date" (the datetime loop of  *)
(* convert_data_types, lines 113-120, then has nothing to visit); cells    *)
(* are drawn from the small literal alphabets below.                       *)
(***************************************************************************)
EXTENDS Integers, Sequences, FiniteSets, TLC

-----------------------------------------------------------------------------
(* Bounds of the model *)

\* rows of the one-column numeric input files
MaxRows == 5
\* rows of the mixed-literal and of the two-column input files
MaxMixRows == 3
\* data lines of the file given to split_csv
MaxLines == 5
\* largest num_splits tried (besides the 12 of the 100-row scenario)
MaxSplits == 4
\* rows per chunk of the fallback's reader: stands for chunk_size = 10000
\* (split_csv.py line 66), scaled down so that a file spans several chunks
ChunkSize == 2
\* exceptions raised while a column is processed, per run of clean_data,
\* besides those the data itself causes
MaxColumnErrors == 1

-----------------------------------------------------------------------------
(* float64 values *)

RECURSIVE Gcd(_, _)
Gcd(a, b) == IF b = 0 THEN a ELSE Gcd(b, a % b)

RECURSIVE LcmUpTo(_)
LcmUpTo(n) == IF n <= 1 THEN 1 ELSE (LcmUpTo(n - 1) * n) \div Gcd(LcmUpTo(n - 1), n)

\* units per 1.0: divisible by every row count (means, neighbour averages),
\* by 4 (quartile interpolation) and by 2 (1.5 * IQR)
Scale == 8 * LcmUpTo(MaxRows)

NaN == 2000000000
PosInf == 1000000000
NegInf == -1000000000

IsNaN(x) == x = NaN
IsInf(x) == x = PosInf \/ x = NegInf
IsFinite(x) == ~IsNaN(x) /\ ~IsInf(x)

FAdd(x, y) ==
    IF IsNaN(x) \/ IsNaN(y) THEN NaN
    ELSE IF IsInf(x) THEN (IF IsInf(y) /\ y # x THEN NaN ELSE x)
    ELSE IF IsInf(y) THEN y
    ELSE x + y

FNeg(x) == IF IsNaN(x) THEN NaN ELSE 0 - x

FSub(x, y) == FAdd(x, FNeg(y))

\* x * (n/d) for a rational n/d >= 0
FMul(x, n, d) ==
    IF IsNaN(x) THEN NaN
    ELSE IF IsInf(x) THEN (IF n = 0 THEN NaN ELSE x)
    ELSE (x * n) \div d

\* x / k for a count k >= 1
FDiv(x, k) == IF IsFinite(x) THEN x \div k ELSE x

\* comparisons with NaN are False
FLt(x, y) == ~IsNaN(x) /\ ~IsNaN(y) /\ x < y
FGt(x, y) == FLt(y, x)

RECURSIVE FSum(_)
FSum(s) == IF s = <<>> THEN 0 ELSE FAdd(Head(s), FSum(Tail(s)))

isnull(v) == v = NaN
notnull(v) == v # NaN

dropna(vals) == SelectSeq(vals, notnull)

-----------------------------------------------------------------------------
(* Literals of the input files and their parsing *)

Numerals == {"1", "2", "3", "4", "5", "6", "7", "8", "9", "100"}

NumeralValue(s) ==
    CASE s = "1" -> 1 [] s = "2" -> 2 [] s = "3" -> 3 [] s = "4" -> 4
      [] s = "5" -> 5 [] s = "6" -> 6 [] s = "7" -> 7 [] s = "8" -> 8
      [] s = "9" -> 9 [] s = "100" -> 100

\* the float a literal parses to; NaN when it does not parse (and for the
\* empty cell): read_csv's float parser and pd.to_numeric(errors='coerce')
to_numeric(s) ==
    IF s \in Numerals THEN NumeralValue(s) * Scale
    ELSE IF s = "inf" THEN PosInf
    ELSE IF s = "-inf" THEN NegInf
    ELSE NaN

\* Python's (code point) order of the text literals, as used by sorting
SortedLiterals == <<"-inf", "1", "9", "EN", "LC", "inf">>
SortRank(s) == CHOOSE i \in DOMAIN SortedLiterals : SortedLiterals[i] = s

-----------------------------------------------------------------------------
(* A DataFrame is a sequence of columns [name, dtype, vals, text].  dtype  *)
(* is "number" (np.number: int64/float64; the cells are the floats vals,   *)
(* missing = NaN, text is empty) or "object" (the cells are the strings    *)
(* text, missing = the empty literal "", vals is empty).                   *)

\* the row positions of a column
Index(col) == IF col.dtype = "object" THEN DOMAIN col.text ELSE DOMAIN col.vals

IsNull(col, i) ==
    IF col.dtype = "object" THEN col.text[i] = "" ELSE isnull(col.vals[i])

HasNull(col) == \E i \in Index(col) : IsNull(col, i)

\* len(df)
RowCount(d) == IF Len(d) = 0 THEN 0 ELSE Cardinality(Index(d[1]))

\* pd.read_csv column type inference: a column whose every cell is empty or
\* a numeric literal is numeric; a frame with no rows has object columns
ReadColumn(name, cells) ==
    IF Len(cells) > 0 /\ \A i \in DOMAIN cells : cells[i] = "" \/ to_numeric(cells[i]) # NaN
    THEN [name |-> name, dtype |-> "number",
          vals |-> [i \in DOMAIN cells |-> to_numeric(cells[i])], text |-> <<>>]
    ELSE [name |-> name, dtype |-> "object", vals |-> <<>>, text |-> cells]

read_csv(file) ==
    [c \in DOMAIN file.cells |-> ReadColumn(file.names[c], file.cells[c])]

-----------------------------------------------------------------------------
(* Input files *)

NumericCells == {"", "1", "9"}
MixedCells == {"", "1", "EN", "LC", "inf", "-inf"}
ContextCells == {"", "9", "LC"}

SeqsUpTo(S, n) == UNION {[1..k -> S] : k \in 0..n}

TallFiles ==
    {[names |-> <<"depth">>, cells |-> <<col>>] : col \in SeqsUpTo(NumericCells, MaxRows)}

MixedFiles ==
    {[names |-> <<"status">>, cells |-> <<col>>] : col \in SeqsUpTo(MixedCells, MaxMixRows)}

WideFiles ==
    UNION {{[names |-> <<"depth", "elevation">>, cells |-> <<a, b>>] :
                a \in [1..k -> NumericCells], b \in [1..k -> ContextCells]} :
           k \in 0..MaxMixRows}

DepthScenario ==
    [names |-> <<"depth">>,
     cells |-> << <<"1", "2", "3", "4", "5", "6", "7", "8", "9", "100">> >>]

StatusScenario ==
    [names |-> <<"status">>, cells |-> << <<"LC", "LC", "EN", "">> >>]

InputFiles ==
    TallFiles \cup MixedFiles \cup WideFiles \cup {DepthScenario, StatusScenario}

-----------------------------------------------------------------------------
(* DataCleaner state *)

VARIABLES
    file,           \* the input file (never written)
    df,             \* self.df, the working dataset
    original_df,    \* self.original_df
    pc,             \* the step clean_data is about to run
    knn_log,        \* what knn_imputation printed: "", "completed", "none", "unsuitable", "error"
    outlier_log,    \* per column: what handle_outliers computed and printed
    report,         \* what generate_cleaning_report printed
    saved,          \* cleaned_dataset.csv: <<>> until written, then <<frame>>
    col_errors      \* the exceptions raised while a column was processed:
                    \* [step, col], col the position of the column

cvars == <<file, df, original_df, pc, knn_log, outlier_log, report, saved, col_errors>>

(* split_csv state *)
VARIABLES
    input_file,     \* [first_line, lines]: the header's characters and, per data
                    \* line, "row" or "skip" (blank or malformed: dropped by read_csv)
    num_splits,
    dir_exists,     \* os.path.exists('split_files')
    parts,          \* split_files/part_<n>.csv written by this call: n -> rows
    split_pc,       \* position in split_csv
    path,           \* "primary" or "fallback"
    written,        \* part numbers written on the current path
    delimiter,      \* "unbound" until line 15 has assigned it
    csv_df,         \* the frame loaded on the primary path (rows = line numbers)
    total_rows,
    rows_per_split,
    part_i,         \* the primary loop's index i
    output_df,      \* the fallback's accumulated rows
    current_split,
    chunks_read     \* chunks the fallback's reader has yielded

svars == <<input_file, num_splits, dir_exists, parts, split_pc, path, written, delimiter,
           csv_df, total_rows, rows_per_split, part_i, output_df, current_split, chunks_read>>

(* BiodiversityAnalyzer / ComprehensiveDataAnalyzer state *)
VARIABLES
    an_input,       \* the dataset given to the analyzer (see AnalysisInputs)
    an_pc,          \* the section the pipeline is about to call, or "returned",
                    \* "raised" (the exception left the pipeline method), "idle"
    an_started,     \* the sections that have been called
    an_skipped,     \* the sections that skipped their analysis (column absent)
    an_plots,       \* the files written by save_plot
    an_error        \* the exception that left the pipeline: "" or its class

avars == <<an_input, an_pc, an_started, an_skipped, an_plots, an_error>>

vars == <<cvars, svars, avars>>

\* no analyzer is running
AnalyzerIdle ==
    /\ an_input = [pipeline |-> "none"]
    /\ an_pc = "idle"
    /\ an_started = {}
    /\ an_skipped = {}
    /\ an_plots = {}
    /\ an_error = ""

\* split_csv is not running
SplitIdle ==
    /\ input_file = [first_line |-> <<>>, lines |-> <<>>]
    /\ num_splits = 1
    /\ dir_exists = FALSE
    /\ parts = <<>>
    /\ split_pc = "idle"
    /\ path = "primary"
    /\ written = {}
    /\ delimiter = "unbound"
    /\ csv_df = <<>>
    /\ total_rows = 0
    /\ rows_per_split = 0
    /\ part_i = 0
    /\ output_df = <<>>
    /\ current_split = 0
    /\ chunks_read = 0

\* faulty variant: self.original_df = self.df, a second name for one frame
copy_alias(snapshot, working) == working

\* self.original_df = self.df.copy(): a frame of its own, which the later
\* assignments into self.df (the value of working) do not reach
copy(snapshot, working) == snapshot

\* DataCleaner is not running
CleanerIdle ==
    /\ file = [names |-> <<>>, cells |-> <<>>]
    /\ df = <<>>
    /\ original_df = <<>>
    /\ pc = "idle"
    /\ knn_log = ""
    /\ outlier_log = <<>>
    /\ report = <<>>
    /\ saved = <<>>
    /\ col_errors = {}

Init ==
    /\ file \in InputFiles
    /\ df = read_csv(file)
    /\ original_df = read_csv(file)
    /\ pc = "impute_missing_values"
    /\ knn_log = ""
    /\ outlier_log = <<>>
    /\ report = <<>>
    /\ saved = <<>>
    /\ col_errors = {}
    /\ SplitIdle
    /\ AnalyzerIdle

-----------------------------------------------------------------------------
(* impute_missing_values *)

Mean(vals) ==
    IF dropna(vals) = <<>> THEN NaN
    ELSE FDiv(FSum(dropna(vals)), Len(dropna(vals)))

SetMin(S) == CHOOSE x \in S : \A y \in S : x <= y

Count(text, v) == Cardinality({i \in DOMAIN text : text[i] = v})

\* Series.mode(): the most frequent non-missing values
Modes(text) ==
    LET present == {text[i] : i \in DOMAIN text} \ {""}
    IN {v \in present : \A w \in present : Count(text, w) <= Count(text, v)}

\* faulty variant: the most frequent value met first in row order
ModeValue_first(text) ==
    LET first(v) == SetMin({i \in DOMAIN text : text[i] = v})
    IN CHOOSE v \in Modes(text) : \A w \in Modes(text) : first(v) <= first(w)

\* Series.mode()[0]: mode() returns the modes sorted
ModeValue(text) ==
    CHOOSE v \in Modes(text) : \A w \in Modes(text) : SortRank(v) <= SortRank(w)

\* Series.fillna(value, inplace=True)
fillna(col, value) ==
    IF col.dtype = "number"
    THEN [col EXCEPT !.vals = [i \in DOMAIN col.vals |-> IF isnull(col.vals[i]) THEN value ELSE col.vals[i]]]
    ELSE [col EXCEPT !.text = [i \in DOMAIN col.text |-> IF col.text[i] = "" THEN value ELSE col.text[i]]]

ImputeColumn(col) ==
    IF ~HasNull(col) THEN col
    ELSE IF col.dtype = "number" THEN fillna(col, Mean(col.vals))
    ELSE fillna(col, ModeValue(col.text))

\* the categorical columns on which mode()[0] raises (no non-missing value)
ModeFails(d) ==
    {c \in DOMAIN d : d[c].dtype = "object" /\ HasNull(d[c]) /\ Modes(d[c].text) = {}}

\* the columns a step may be made to raise on: none (0) or, while fewer
\* than MaxColumnErrors exceptions have been raised, one of `candidates`
ErrorPoints(candidates) ==
    IF Cardinality(col_errors) < MaxColumnErrors THEN {0} \cup candidates ELSE {0}

\* the place of column c in the two loops of lines 23-34: the numeric
\* columns first, then the object columns, each in column order
ImputeRank(d, c) == IF d[c].dtype = "number" THEN c ELSE Len(d) + c

\* Neither loop has a try statement: the first column whose processing
\* raises ends the method, and clean_data, with the exception.
impute_missing_values ==
    /\ pc = "impute_missing_values"
    /\ \E raises_at \in ErrorPoints(DOMAIN df) :
         LET failing == ModeFails(df) \cup ({raises_at} \ {0})
             stop == IF failing = {} THEN 2 * Len(df) + 1
                     ELSE SetMin({ImputeRank(df, c) : c \in failing})
         IN /\ df' = [c \in DOMAIN df |->
                        IF ImputeRank(df, c) < stop THEN ImputeColumn(df[c]) ELSE df[c]]
            /\ pc' = IF failing = {} THEN "knn_imputation" ELSE "aborted"
            /\ col_errors' = col_errors \cup
                   {[step |-> "impute_missing_values", col |-> c] :
                       c \in {x \in failing : ImputeRank(df, x) = stop}}
    /\ UNCHANGED <<file, knn_log, outlier_log, report, saved, svars, avars>>
    /\ original_df' = copy(original_df, df')

-----------------------------------------------------------------------------
(* knn_imputation *)

NNeighbors == 5

Min(a, b) == IF a <= b THEN a ELSE b

RECURSIVE SumOver(_, _)
SumOver(S, f) ==
    IF S = {} THEN 0
    ELSE LET x == CHOOSE y \in S : TRUE IN f[x] + SumOver(S \ {x}, f)

\* self.df.select_dtypes(include=[np.number]).columns
NumericCols(d) == {c \in DOMAIN d : d[c].dtype = "number"}

\* numeric_data.replace([np.inf, -np.inf], np.nan)
ReplaceInf(vals) == [i \in DOMAIN vals |-> IF IsInf(vals[i]) THEN NaN ELSE vals[i]]

\* numeric_data.dropna(axis=1, how='all'): the columns that stay
KeptCols(X) == {c \in DOMAIN X : dropna(X[c]) # <<>>}

(* sklearn KNNImputer(n_neighbors=k), weights='uniform', metric=           *)
(* 'nan_euclidean'.  X maps the kept columns to their cells (no +-inf).    *)
(* The distance of rows r and s is sqrt(|K|/|common| * sum of squared      *)
(* differences over the columns present in both), NaN when they share no   *)
(* column.                                                                 *)
CommonCols(X, r, s) == {c \in DOMAIN X : notnull(X[c][r]) /\ notnull(X[c][s])}

SqDiffs(X, r, s) ==
    SumOver(CommonCols(X, r, s), [c \in DOMAIN X |-> (X[c][r] - X[c][s]) * (X[c][r] - X[c][s])])

\* donor a sorts before donor b for receiver r: smaller distance first, NaN
\* distances last, equal distances by row position
Nearer(X, r, a, b) ==
    IF CommonCols(X, r, a) = {} THEN CommonCols(X, r, b) = {} /\ a < b
    ELSE IF CommonCols(X, r, b) = {} THEN TRUE
    ELSE LET da == SqDiffs(X, r, a) * Cardinality(CommonCols(X, r, b))
             db == SqDiffs(X, r, b) * Cardinality(CommonCols(X, r, a))
         IN da < db \/ (da = db /\ a < b)

\* the value KNNImputer puts in the missing cell (r, c)
KnnEstimate(X, k, r, c) ==
    LET donors == {s \in DOMAIN X[c] : notnull(X[c][s])}
        defined == {s \in donors : CommonCols(X, r, s) # {}}
        kk == Min(k, Cardinality(donors))
        chosen == {s \in donors : Cardinality({t \in donors : Nearer(X, r, t, s)}) < kk}
        used == chosen \cap defined
    IN IF defined = {} THEN Mean(X[c])
       ELSE SumOver(used, X[c]) \div Cardinality(used)

fit_transform(X, k) ==
    [c \in DOMAIN X |->
        [r \in DOMAIN X[c] |-> IF isnull(X[c][r]) THEN KnnEstimate(X, k, r, c) ELSE X[c][r]]]

\* faulty variant: numeric_data is not a copy, so an error after line 50 leaves the
\* infinities of the working dataset replaced
KnnOutcome_nocopy(d, estimator_raises) ==
    LET numeric_cols == NumericCols(d)
        overwritten == [c \in DOMAIN d |->
                          IF c \in numeric_cols
                          THEN [d[c] EXCEPT !.vals = ReplaceInf(d[c].vals)] ELSE d[c]]
        k == Min(NNeighbors, RowCount(d) - 1)
    IN IF numeric_cols = {} THEN [log |-> "none", df |-> d]
       ELSE IF KeptCols([c \in numeric_cols |-> overwritten[c].vals]) = {}
            THEN [log |-> "unsuitable", df |-> overwritten]
       ELSE IF k < 1 \/ estimator_raises THEN [log |-> "error", df |-> overwritten]
       ELSE [log |-> "completed",
             df |-> [c \in DOMAIN d |->
                        IF c \in KeptCols([x \in numeric_cols |-> overwritten[x].vals])
                        THEN [d[c] EXCEPT !.vals =
                                 fit_transform([x \in KeptCols([y \in numeric_cols |-> overwritten[y].vals])
                                                   |-> overwritten[x].vals], k)[c]]
                        ELSE overwritten[c]]]

\* the body of knn_imputation (lines 41-74): what it prints and the frame it
\* leaves, given whether the estimator raises (out of memory, ...)
KnnOutcome(d, estimator_raises) ==
    LET numeric_cols == NumericCols(d)
        replaced == [c \in numeric_cols |-> ReplaceInf(d[c].vals)]
        numeric_data == [c \in KeptCols(replaced) |-> replaced[c]]
        k == Min(NNeighbors, RowCount(d) - 1)
    IN IF numeric_cols = {} THEN [log |-> "none", df |-> d]
       ELSE IF DOMAIN numeric_data = {} THEN [log |-> "unsuitable", df |-> d]
       ELSE IF k < 1 \/ estimator_raises THEN [log |-> "error", df |-> d]
       ELSE [log |-> "completed",
             df |-> [c \in DOMAIN d |->
                        IF c \in DOMAIN numeric_data
                        THEN [d[c] EXCEPT !.vals = fit_transform(numeric_data, k)[c]]
                        ELSE d[c]]]

knn_imputation ==
    /\ pc = "knn_imputation"
    /\ \E estimator_raises \in BOOLEAN :
         /\ knn_log' = KnnOutcome(df, estimator_raises).log
         /\ df' = KnnOutcome(df, estimator_raises).df
    /\ pc' = "handle_outliers"
    /\ UNCHANGED <<file, outlier_log, report, saved, col_errors, svars, avars>>
    /\ original_df' = copy(original_df, df')

-----------------------------------------------------------------------------
(* handle_outliers *)

RECURSIVE Insert(_, _)
Insert(v, s) ==
    IF s = <<>> THEN <<v>>
    ELSE IF v <= Head(s) THEN <<v>> \o s
    ELSE <<Head(s)>> \o Insert(v, Tail(s))

RECURSIVE Sort(_)
Sort(s) == IF s = <<>> THEN <<>> ELSE Insert(Head(s), Sort(Tail(s)))

\* faulty variant: the quantile without interpolation (method='lower')
Quantile_lower(vals, qn) ==
    LET s == Sort(dropna(vals))
        n == Len(s)
    IN IF n = 0 THEN NaN ELSE s[(((n - 1) * qn) \div 4) + 1]

\* Series.quantile(qn/4): np.percentile(dropna, method='linear'); NaN for
\* an all-missing column
Quantile(vals, qn) ==
    LET s == Sort(dropna(vals))
        n == Len(s)
        prev == ((n - 1) * qn) \div 4
        g4 == ((n - 1) * qn) % 4
        a == s[prev + 1]
        b == s[Min(prev + 1, n - 1) + 1]
    IN IF n = 0 THEN NaN
       ELSE IF 2 * g4 >= 4 THEN FSub(b, FMul(FSub(b, a), 4 - g4, 4))
       ELSE FAdd(a, FMul(FSub(b, a), g4, 4))

\* the locals of one iteration of the loop over the numeric columns
Bounds(vals) ==
    LET Q1 == Quantile(vals, 1)
        Q3 == Quantile(vals, 3)
        IQR == FSub(Q3, Q1)
    IN [Q1 |-> Q1, Q3 |-> Q3,
        lower_bound |-> FSub(Q1, FMul(IQR, 3, 2)),
        upper_bound |-> FAdd(Q3, FMul(IQR, 3, 2))]

\* faulty variant: the mask with <= and >=
Outliers_inclusive(vals, lo, hi) ==
    {i \in DOMAIN vals : (notnull(lo) /\ vals[i] <= lo /\ notnull(vals[i]))
                          \/ (notnull(hi) /\ vals[i] >= hi /\ notnull(vals[i]))}

\* the rows of (df[col] < lower_bound) | (df[col] > upper_bound)
Outliers(vals, lo, hi) == {i \in DOMAIN vals : FLt(vals[i], lo) \/ FGt(vals[i], hi)}

CapLower(vals, lo) == [i \in DOMAIN vals |-> IF FLt(vals[i], lo) THEN lo ELSE vals[i]]
CapUpper(vals, hi) == [i \in DOMAIN vals |-> IF FGt(vals[i], hi) THEN hi ELSE vals[i]]

\* faulty variant: the outlying rows are dropped instead of capped
CapColumn_drop(vals) ==
    LET b == Bounds(vals)
    IN SelectSeq(vals, LAMBDA v : ~(FLt(v, b.lower_bound) \/ FGt(v, b.upper_bound)))

CapColumn(vals) ==
    LET b == Bounds(vals)
    IN IF Outliers(vals, b.lower_bound, b.upper_bound) = {} THEN vals
       ELSE CapUpper(CapLower(vals, b.lower_bound), b.upper_bound)

OutlierEntry(col) ==
    LET b == Bounds(col.vals)
    IN [col |-> col.name, Q1 |-> b.Q1, Q3 |-> b.Q3,
        lower_bound |-> b.lower_bound, upper_bound |-> b.upper_bound,
        n_outliers |-> Cardinality(Outliers(col.vals, b.lower_bound, b.upper_bound))]

\* The body of the loop is a try statement (lines 84-106): an exception
\* raised for one column, here in lines 86-95, before the column is
\* written, is printed and the loop goes on with the next column.
handle_outliers ==
    /\ pc = "handle_outliers"
    /\ \E raises_at \in ErrorPoints(NumericCols(df)) :
         /\ df' = [c \in DOMAIN df |->
                     IF df[c].dtype = "number" /\ c # raises_at
                     THEN [df[c] EXCEPT !.vals = CapColumn(df[c].vals)]
                     ELSE df[c]]
         /\ outlier_log' = [c \in DOMAIN df |->
                              IF df[c].dtype = "number" /\ c # raises_at
                              THEN <<OutlierEntry(df[c])>> ELSE <<>>]
         /\ col_errors' = col_errors \cup
                {[step |-> "handle_outliers", col |-> c] : c \in {raises_at} \ {0}}
    /\ pc' = "convert_data_types"
    /\ UNCHANGED <<file, knn_log, report, saved, svars, avars>>
    /\ original_df' = copy(original_df, df')

-----------------------------------------------------------------------------
(* convert_data_types *)

ConvertColumn(col) ==
    LET numeric_conversion == [i \in DOMAIN col.text |-> to_numeric(col.text[i])]
    IN IF col.dtype = "object" /\ \E i \in DOMAIN col.text : notnull(numeric_conversion[i])
       THEN [col EXCEPT !.dtype = "number", !.vals = numeric_conversion, !.text = <<>>]
       ELSE col

\* The conversion of one column is a try statement (lines 125-131): an
\* exception raised by pd.to_numeric is dropped, the column stays as it is.
convert_data_types ==
    /\ pc = "convert_data_types"
    /\ \E raises_at \in ErrorPoints({c \in DOMAIN df : df[c].dtype = "object"}) :
         /\ df' = [c \in DOMAIN df |-> IF c = raises_at THEN df[c] ELSE ConvertColumn(df[c])]
         /\ col_errors' = col_errors \cup
                {[step |-> "convert_data_types", col |-> c] : c \in {raises_at} \ {0}}
    /\ pc' = "generate_cleaning_report"
    /\ UNCHANGED <<file, knn_log, outlier_log, report, saved, svars, avars>>
    /\ original_df' = copy(original_df, df')

-----------------------------------------------------------------------------
(* generate_cleaning_report, save_cleaned_data *)

\* DataFrame.isnull().sum() of one column
MissingCount(col) == Cardinality({i \in Index(col) : IsNull(col, i)})

CleaningReport(orig, cleaned) ==
    [missing |-> {[col |-> orig[c].name,
                   original |-> MissingCount(orig[c]),
                   cleaned |-> MissingCount(cleaned[c])] :
                  c \in {x \in DOMAIN orig : MissingCount(orig[x]) - MissingCount(cleaned[x]) > 0}},
     types |-> {[col |-> orig[c].name, from |-> orig[c].dtype, to |-> cleaned[c].dtype] :
                c \in {x \in DOMAIN orig : orig[x].dtype # cleaned[x].dtype}}]

generate_cleaning_report ==
    /\ pc = "generate_cleaning_report"
    /\ report' = <<CleaningReport(original_df, df)>>
    /\ pc' = "save_cleaned_data"
    /\ UNCHANGED <<file, df, knn_log, outlier_log, saved, col_errors, svars, avars>>
    /\ original_df' = copy(original_df, df')

\* df.to_csv(output_path, index=False): header and one line per row (the
\* text of the cells is not modelled); the write may fail, and the error
\* then leaves clean_data
save_cleaned_data ==
    /\ pc = "save_cleaned_data"
    /\ \E write_ok \in BOOLEAN :
         IF write_ok
         THEN /\ saved' = <<[names |-> [c \in DOMAIN df |-> df[c].name], nrows |-> RowCount(df)]>>
              /\ pc' = "done"
         ELSE /\ saved' = saved
              /\ pc' = "aborted"
    /\ UNCHANGED <<file, df, knn_log, outlier_log, report, col_errors, svars, avars>>
    /\ original_df' = copy(original_df, df')

-----------------------------------------------------------------------------
(* split_csv: inputs *)

HeaderLines ==
    {<<"a">>, <<"a", ",", "b">>, <<"a", ";", "b", "\t", "c">>,
     <<"a", "|", "b", ";", "c", "|", "d">>}

\* a file with a header line and up to MaxLines data lines
SplitFiles ==
    {[first_line |-> h, lines |-> l] :
        h \in HeaderLines, l \in SeqsUpTo({"row", "skip"}, MaxLines)}

\* a file of zero bytes
EmptyFile == [first_line |-> <<>>, lines |-> <<>>]

\* the 100-row file of the 12-way split scenario
HundredRows == [first_line |-> <<"a", ",", "b">>, lines |-> [n \in 1..100 |-> "row"]]

IsEmptyFile(f) == f.first_line = <<>>

\* the rows read_csv yields (on_bad_lines='skip', blank lines skipped),
\* each row named by the number of its line
ParsedRows(f) ==
    SelectSeq([n \in 1..Len(f.lines) |-> n], LAMBDA n : f.lines[n] = "row")

SplitInit ==
    /\ \/ /\ input_file \in SplitFiles \cup {EmptyFile}
          /\ num_splits \in 1..MaxSplits
       \/ /\ input_file = HundredRows
          /\ num_splits = 12
    /\ dir_exists \in BOOLEAN
    /\ parts = <<>>
    /\ split_pc = "detect"
    /\ path = "primary"
    /\ written = {}
    /\ delimiter = "unbound"
    /\ csv_df = <<>>
    /\ total_rows = 0
    /\ rows_per_split = 0
    /\ part_i = 0
    /\ output_df = <<>>
    /\ current_split = 0
    /\ chunks_read = 0
    /\ CleanerIdle
    /\ AnalyzerIdle

-----------------------------------------------------------------------------
(* split_csv: helpers *)

delimiters == <<",", "\t", ";", "|">>

\* first_line.count(d)
CountOf(line, d) == Cardinality({n \in DOMAIN line : line[n] = d})

SetMax(S) == CHOOSE x \in S : \A y \in S : y <= x

\* faulty variant: the last of the candidates with the greatest count
DetectDelimiter_last(first_line) ==
    LET counts == [j \in DOMAIN delimiters |-> CountOf(first_line, delimiters[j])]
        index == SetMax({j \in DOMAIN counts : counts[j] = SetMax({counts[n] : n \in DOMAIN counts})})
    IN delimiters[index]

\* delimiters[counts.index(max(counts))]
DetectDelimiter(first_line) ==
    LET counts == [j \in DOMAIN delimiters |-> CountOf(first_line, delimiters[j])]
        index == SetMin({j \in DOMAIN counts : counts[j] = SetMax({counts[n] : n \in DOMAIN counts})})
    IN delimiters[index]

\* faulty variant: the quotient rounded down
Ceil_floor(a, b) == a \div b

\* math.ceil(a / b) for b >= 1
Ceil(a, b) == 0 - ((0 - a) \div b)

Max(a, b) == IF a >= b THEN a ELSE b

\* faulty variant: the slice starts one row late
ILoc_late(frame, start, end) == SubSeq(frame, Min(start, Len(frame)) + 2, Min(end, Len(frame)))

\* frame.iloc[start:end] for 0 <= start, 0 <= end (Python slices clamp)
ILoc(frame, start, end) == SubSeq(frame, Min(start, Len(frame)) + 1, Min(end, Len(frame)))

\* split_df.to_csv(os.path.join('split_files', f'part_{n}.csv'))
WritePart(n, rows) ==
    /\ parts' = (n :> rows) @@ parts
    /\ written' = written \cup {n}

\* the except clause of the primary path: the fallback starts
EnterFallback ==
    /\ split_pc' = "fallback_count"
    /\ path' = "fallback"
    /\ written' = {}

-----------------------------------------------------------------------------
(* split_csv: primary path *)

\* lines 10-15; an error opening or decoding the file leaves delimiter unbound
split_detect ==
    /\ split_pc = "detect"
    /\ \/ /\ delimiter' = DetectDelimiter(input_file.first_line)
          /\ split_pc' = "read"
          /\ UNCHANGED <<path, written>>
       \/ /\ EnterFallback
          /\ UNCHANGED delimiter
    /\ UNCHANGED <<input_file, num_splits, dir_exists, parts, csv_df, total_rows,
                   rows_per_split, part_i, output_df, current_split, chunks_read, cvars, avars>>

\* lines 20-28; read_csv raises EmptyDataError on a file of zero bytes
split_read ==
    /\ split_pc = "read"
    /\ \/ /\ ~IsEmptyFile(input_file)
          /\ csv_df' = ParsedRows(input_file)
          /\ total_rows' = Len(ParsedRows(input_file))
          /\ rows_per_split' = Ceil(Len(ParsedRows(input_file)), num_splits)
          /\ split_pc' = "mkdir"
          /\ UNCHANGED <<path, written>>
       \/ /\ EnterFallback
          /\ UNCHANGED <<csv_df, total_rows, rows_per_split>>
    /\ UNCHANGED <<input_file, num_splits, dir_exists, parts, delimiter, part_i, output_df,
                   current_split, chunks_read, cvars, avars>>

\* lines 34-36
split_mkdir ==
    /\ split_pc = "mkdir"
    /\ \/ /\ dir_exists' = TRUE
          /\ split_pc' = "write"
          /\ part_i' = 0
          /\ UNCHANGED <<path, written>>
       \/ /\ ~dir_exists
          /\ EnterFallback
          /\ UNCHANGED <<dir_exists, part_i>>
    /\ UNCHANGED <<input_file, num_splits, parts, delimiter, csv_df, total_rows,
                   rows_per_split, output_df, current_split, chunks_read, cvars, avars>>

\* one iteration of the loop of lines 40-51
split_write ==
    /\ split_pc = "write"
    /\ part_i < num_splits
    /\ \/ /\ LET start_idx == part_i * rows_per_split
                 end_idx == Min((part_i + 1) * rows_per_split, total_rows)
             IN WritePart(part_i + 1, ILoc(csv_df, start_idx, end_idx))
          /\ part_i' = part_i + 1
          /\ UNCHANGED <<split_pc, path>>
       \/ /\ EnterFallback
          /\ UNCHANGED <<parts, part_i>>
    /\ UNCHANGED <<input_file, num_splits, dir_exists, delimiter, csv_df, total_rows,
                   rows_per_split, output_df, current_split, chunks_read, cvars, avars>>

\* lines 53-59; os.path.getsize(input_file) may raise
split_summary ==
    /\ split_pc = "write"
    /\ part_i = num_splits
    /\ \/ /\ split_pc' = "done"
          /\ UNCHANGED <<path, written>>
       \/ EnterFallback
    /\ UNCHANGED <<input_file, num_splits, dir_exists, parts, delimiter, csv_df, total_rows,
                   rows_per_split, part_i, output_df, current_split, chunks_read, cvars, avars>>

-----------------------------------------------------------------------------
(* split_csv: chunked fallback *)

\* lines 66-73; total_rows counts every line after the first; open may raise
fallback_count ==
    /\ split_pc = "fallback_count"
    /\ \/ /\ total_rows' = (IF IsEmptyFile(input_file) THEN 0 ELSE 1 + Len(input_file.lines)) - 1
          /\ rows_per_split' = Ceil((IF IsEmptyFile(input_file) THEN 0 ELSE 1 + Len(input_file.lines)) - 1,
                                    num_splits)
          /\ current_split' = 0
          /\ output_df' = <<>>
          /\ chunks_read' = 0
          /\ split_pc' = "fallback_read"
       \/ /\ split_pc' = "failed"
          /\ UNCHANGED <<total_rows, rows_per_split, current_split, output_df, chunks_read>>
    /\ UNCHANGED <<input_file, num_splits, dir_exists, parts, path, written, delimiter,
                   csv_df, part_i, cvars, avars>>

\* the call pd.read_csv(..., delimiter=delimiter, chunksize=chunk_size) of
\* lines 75-80: NameError when delimiter was never bound, EmptyDataError on
\* a file of zero bytes, or an error of the reader
fallback_read ==
    /\ split_pc = "fallback_read"
    /\ \/ /\ delimiter # "unbound"
          /\ ~IsEmptyFile(input_file)
          /\ split_pc' = "fallback_chunk"
       \/ split_pc' = "failed"
    /\ UNCHANGED <<input_file, num_splits, dir_exists, parts, path, written, delimiter,
                   csv_df, total_rows, rows_per_split, part_i, output_df, current_split,
                   chunks_read, cvars, avars>>

\* the for statement takes the next chunk (lines 75-82), or finds the reader
\* exhausted; a file without data rows may yield one empty chunk or none
fallback_chunk ==
    /\ split_pc = "fallback_chunk"
    /\ LET rows == ParsedRows(input_file)
       IN \/ /\ \/ chunks_read * ChunkSize < Len(rows)
                \/ chunks_read = 0 /\ rows = <<>>
             /\ output_df' = output_df \o ILoc(rows, chunks_read * ChunkSize,
                                               (chunks_read + 1) * ChunkSize)
             /\ chunks_read' = chunks_read + 1
             /\ split_pc' = "fallback_split"
          \/ /\ chunks_read * ChunkSize >= Len(rows)
             /\ split_pc' = "fallback_last"
             /\ UNCHANGED <<output_df, chunks_read>>
          \/ /\ split_pc' = "failed"
             /\ UNCHANGED <<output_df, chunks_read>>
    /\ UNCHANGED <<input_file, num_splits, dir_exists, parts, path, written, delimiter,
                   csv_df, total_rows, rows_per_split, part_i, current_split, cvars, avars>>

\* one test of the while condition of line 84 and, when it holds, one
\* iteration of its body (lines 85-92); to_csv raises when the directory
\* does not exist
fallback_split ==
    /\ split_pc = "fallback_split"
    /\ \/ /\ Len(output_df) >= rows_per_split /\ current_split < num_splits - 1
          /\ dir_exists
          /\ WritePart(current_split + 1, ILoc(output_df, 0, rows_per_split))
          /\ output_df' = ILoc(output_df, rows_per_split, Len(output_df))
          /\ current_split' = current_split + 1
          /\ UNCHANGED split_pc
       \/ /\ Len(output_df) >= rows_per_split /\ current_split < num_splits - 1
          /\ split_pc' = "failed"
          /\ UNCHANGED <<parts, written, output_df, current_split>>
       \/ /\ ~(Len(output_df) >= rows_per_split /\ current_split < num_splits - 1)
          /\ split_pc' = "fallback_chunk"
          /\ UNCHANGED <<parts, written, output_df, current_split>>
    /\ UNCHANGED <<input_file, num_splits, dir_exists, path, delimiter, csv_df, total_rows,
                   rows_per_split, part_i, chunks_read, cvars, avars>>

\* lines 94-99
fallback_last ==
    /\ split_pc = "fallback_last"
    /\ \/ /\ output_df # <<>> /\ current_split < num_splits
          /\ dir_exists
          /\ WritePart(current_split + 1, output_df)
          /\ split_pc' = "done"
       \/ /\ output_df # <<>> /\ current_split < num_splits
          /\ split_pc' = "failed"
          /\ UNCHANGED <<parts, written>>
       \/ /\ ~(output_df # <<>> /\ current_split < num_splits)
          /\ split_pc' = "done"
          /\ UNCHANGED <<parts, written>>
    /\ UNCHANGED <<input_file, num_splits, dir_exists, path, delimiter, csv_df, total_rows,
                   rows_per_split, part_i, output_df, current_split, chunks_read, cvars, avars>>

SplitNext ==
    \/ split_detect
    \/ split_read
    \/ split_mkdir
    \/ split_write
    \/ split_summary
    \/ fallback_count
    \/ fallback_read
    \/ fallback_chunk
    \/ fallback_split
    \/ fallback_last

SplitSpec == SplitInit /\ [][SplitNext]_vars

-----------------------------------------------------------------------------
(* BiodiversityAnalyzer.run_analysis (data_analyzer.py) and                 *)
(* ComprehensiveDataAnalyzer.run_complete_analysis                         *)
(* (data_quality_analyzer.py).  A section is one method call of the        *)
(* pipeline method; neither pipeline method nor any section has a try      *)
(* statement, so an exception raised in a section leaves the pipeline      *)
(* method.  matplotlib calls and savefig are taken to succeed.             *)

\* the columns the sections of run_analysis look up
TaxonomicLevels == {"phylum", "class", "order", "family", "genus"}
SummaryColumns == {"species", "genus", "family", "stateProvince"}
AnalysisColumns ==
    TaxonomicLevels \cup SummaryColumns \cup {"iucnRedListCategory", "eventDate"}

\* what the cells of eventDate are to pd.to_datetime: all parse and one is
\* present, none is present (no rows, or all missing), or one does not parse
DateContents == {"valid", "none", "unparsable"}

\* how a coordinate column was read: not in the file, numeric, or text
CoordinateKinds == {"absent", "number", "object"}

AnalysisInputs ==
    {[pipeline |-> "run_analysis", columns |-> cols, dates |-> d] :
        cols \in SUBSET AnalysisColumns, d \in DateContents}

QualityInputs ==
    {[pipeline |-> "run_complete_analysis", scientificName |-> n,
      decimalLatitude |-> lat, decimalLongitude |-> lon] :
        n \in BOOLEAN, lat \in CoordinateKinds, lon \in CoordinateKinds}

\* the sections in the order the pipeline method calls them
AnalysisSections ==
    <<"taxonomic_analysis", "conservation_status_analysis", "temporal_analysis",
      "geographic_distribution", "data_completeness_analysis", "generate_summary_report">>

QualitySections ==
    <<"analyze_missing_data", "analyze_duplicates", "analyze_inconsistent_data",
      "analyze_outliers", "analyze_data_types", "analyze_format_errors",
      "analyze_incorrect_values", "analyze_structural_issues">>

Sections(pipeline) ==
    IF pipeline = "run_analysis" THEN AnalysisSections ELSE QualitySections

AnalyzerInit ==
    /\ an_input \in AnalysisInputs \cup QualityInputs
    /\ an_pc = Sections(an_input.pipeline)[1]
    /\ an_started = {}
    /\ an_skipped = {}
    /\ an_plots = {}
    /\ an_error = ""
    /\ CleanerIdle
    /\ SplitIdle

\* the statement after the call of `section` in the pipeline method
SectionAfter(pipeline, section) ==
    LET order == Sections(pipeline)
        n == CHOOSE k \in DOMAIN order : order[k] = section
    IN IF n = Len(order) THEN "returned" ELSE order[n + 1]

\* the section returns
Returns(section) ==
    /\ an_pc' = SectionAfter(an_input.pipeline, section)
    /\ an_error' = an_error

\* the section raises: nothing catches the exception in the pipeline method
Raises(section, exception) ==
    /\ an_pc' = "raised"
    /\ an_error' = exception

\* the section is called
Called(section) ==
    /\ an_pc = section
    /\ an_started' = an_started \cup {section}
    /\ UNCHANGED <<an_input, cvars, svars>>

\* lines 31-53: self.df[level] for the five levels, no membership test
taxonomic_analysis ==
    /\ Called("taxonomic_analysis")
    /\ IF TaxonomicLevels \subseteq an_input.columns
       THEN /\ an_plots' = an_plots \cup {"taxonomic_diversity.png"}
            /\ Returns("taxonomic_analysis")
       ELSE /\ an_plots' = an_plots
            /\ Raises("taxonomic_analysis", "KeyError")
    /\ UNCHANGED an_skipped

\* lines 55-90
conservation_status_analysis ==
    /\ Called("conservation_status_analysis")
    /\ IF "iucnRedListCategory" \in an_input.columns
       THEN /\ an_plots' = an_plots \cup {"iucn_distribution.png"}
            /\ UNCHANGED an_skipped
       ELSE /\ an_skipped' = an_skipped \cup {"conservation_status_analysis"}
            /\ UNCHANGED an_plots
    /\ Returns("conservation_status_analysis")

\* lines 92-114: pd.to_datetime raises on a cell that is no date (line 99);
\* idxmax raises on the empty yearly_counts (line 114, after the plot)
temporal_analysis ==
    /\ Called("temporal_analysis")
    /\ IF "eventDate" \notin an_input.columns
       THEN /\ an_skipped' = an_skipped \cup {"temporal_analysis"}
            /\ UNCHANGED an_plots
            /\ Returns("temporal_analysis")
       ELSE /\ UNCHANGED an_skipped
            /\ an_plots' = IF an_input.dates = "unparsable" THEN an_plots
                           ELSE an_plots \cup {"temporal_distribution.png"}
            /\ IF an_input.dates = "valid" THEN Returns("temporal_analysis")
               ELSE Raises("temporal_analysis", "ValueError")

\* lines 116-134
geographic_distribution ==
    /\ Called("geographic_distribution")
    /\ IF "stateProvince" \in an_input.columns
       THEN /\ an_plots' = an_plots \cup {"geographic_distribution.png"}
            /\ UNCHANGED an_skipped
       ELSE /\ an_skipped' = an_skipped \cup {"geographic_distribution"}
            /\ UNCHANGED an_plots
    /\ Returns("geographic_distribution")

\* lines 136-155
data_completeness_analysis ==
    /\ Called("data_completeness_analysis")
    /\ an_plots' = an_plots \cup {"data_completeness.png"}
    /\ Returns("data_completeness_analysis")
    /\ UNCHANGED an_skipped

\* lines 157-173: self.df['species'], ['genus'], ['family'],
\* ['stateProvince'], no membership test
generate_summary_report ==
    /\ Called("generate_summary_report")
    /\ IF SummaryColumns \subseteq an_input.columns
       THEN Returns("generate_summary_report")
       ELSE Raises("generate_summary_report", "KeyError")
    /\ UNCHANGED <<an_skipped, an_plots>>

\* data_quality_analyzer.py lines 12-24
analyze_missing_data ==
    /\ Called("analyze_missing_data")
    /\ Returns("analyze_missing_data")
    /\ UNCHANGED <<an_skipped, an_plots>>

\* lines 26-39
analyze_duplicates ==
    /\ Called("analyze_duplicates")
    /\ an_skipped' = IF an_input.scientificName THEN an_skipped
                     ELSE an_skipped \cup {"analyze_duplicates"}
    /\ Returns("analyze_duplicates")
    /\ UNCHANGED an_plots

\* lines 41-51
analyze_inconsistent_data ==
    /\ Called("analyze_inconsistent_data")
    /\ Returns("analyze_inconsistent_data")
    /\ UNCHANGED <<an_skipped, an_plots>>

\* lines 53-67
analyze_outliers ==
    /\ Called("analyze_outliers")
    /\ Returns("analyze_outliers")
    /\ UNCHANGED <<an_skipped, an_plots>>

\* lines 69-82
analyze_data_types ==
    /\ Called("analyze_data_types")
    /\ Returns("analyze_data_types")
    /\ UNCHANGED <<an_skipped, an_plots>>

\* lines 84-95
analyze_format_errors ==
    /\ Called("analyze_format_errors")
    /\ Returns("analyze_format_errors")
    /\ UNCHANGED <<an_skipped, an_plots>>

\* lines 97-115: a coordinate column read as text makes the comparison
\* with -90 / -180 raise TypeError
analyze_incorrect_values ==
    /\ Called("analyze_incorrect_values")
    /\ an_skipped' = IF an_input.decimalLatitude = "absent" /\ an_input.decimalLongitude = "absent"
                     THEN an_skipped \cup {"analyze_incorrect_values"} ELSE an_skipped
    /\ IF an_input.decimalLatitude = "object" \/ an_input.decimalLongitude = "object"
       THEN Raises("analyze_incorrect_values", "TypeError")
       ELSE Returns("analyze_incorrect_values")
    /\ UNCHANGED an_plots

\* lines 117-127
analyze_structural_issues ==
    /\ Called("analyze_structural_issues")
    /\ Returns("analyze_structural_issues")
    /\ UNCHANGED <<an_skipped, an_plots>>

AnalyzerNext ==
    \/ taxonomic_analysis
    \/ conservation_status_analysis
    \/ temporal_analysis
    \/ geographic_distribution
    \/ data_completeness_analysis
    \/ generate_summary_report
    \/ analyze_missing_data
    \/ analyze_duplicates
    \/ analyze_inconsistent_data
    \/ analyze_outliers
    \/ analyze_data_types
    \/ analyze_format_errors
    \/ analyze_incorrect_values
    \/ analyze_structural_issues

AnalyzerSpec == AnalyzerInit /\ [][AnalyzerNext]_vars

-----------------------------------------------------------------------------

Next ==
    \/ impute_missing_values
    \/ knn_imputation
    \/ handle_outliers
    \/ convert_data_types
    \/ generate_cleaning_report
    \/ save_cleaned_data

Spec == Init /\ [][Next]_vars

-----------------------------------------------------------------------------
(* Properties of the cleaning pipeline (checked under Spec) *)

\* every non-missing cell of a text column parses as a number
AllParse(col) ==
    \A i \in DOMAIN col.text : col.text[i] # "" => notnull(to_numeric(col.text[i]))

SomePresent(col) == \E i \in Index(col) : ~IsNull(col, i)

\* row i holds the same cell in columns a and b
SameCell(a, b, i) ==
    /\ a.dtype = b.dtype
    /\ IF a.dtype = "object" THEN a.text[i] = b.text[i] ELSE a.vals[i] = b.vals[i]

(* C1: convert_data_types converts a text (object) column to numeric if   *)
(* and only if every one of its non-missing values parses as numeric; a    *)
(* column with a value that does not parse is left as text, every cell     *)
(* unchanged.  (Stated for columns with at least one non-missing value,    *)
(* and for the runs where pd.to_numeric raises no exception.)              *)
C1_ConvertsIffAllParse ==
    [][(pc = "convert_data_types" /\ col_errors' = col_errors) =>
          \A c \in DOMAIN df :
              (df[c].dtype = "object" /\ SomePresent(df[c])) =>
                  /\ (df'[c].dtype = "number") <=> AllParse(df[c])
                  /\ ~AllParse(df[c]) => df'[c] = df[c]]_vars

(* C2: in every state of clean_data the working dataset has as many       *)
(* columns, and every column as many rows, as the dataset as loaded; the   *)
(* file written by save_cleaned_data has that many rows too.               *)
C2_RowCountInvariant ==
    pc # "idle" =>
        /\ Len(df) = Len(file.cells)
        /\ \A c \in DOMAIN df : Index(df[c]) = DOMAIN file.cells[c]
        /\ saved # <<>> => saved[1].nrows = RowCount(read_csv(file))

\* the pipeline has finished on a dataset where a missing cell was imputed
\* and an outlier capped
C2_Witness ==
    /\ pc = "done"
    /\ RowCount(df) >= 4
    /\ \E c \in DOMAIN df : outlier_log[c] # <<>> /\ outlier_log[c][1].n_outliers > 0
    /\ \E c \in DOMAIN df : MissingCount(original_df[c]) > 0

(* C3: impute_missing_values, when it returns, leaves no missing cell in any column that    *)
(* had at least one non-missing value, and keeps every non-missing cell.   *)
C3_ImputationEliminatesMissing ==
    [][(pc = "impute_missing_values" /\ pc' = "knn_imputation") =>
          \A c \in DOMAIN df :
              SomePresent(df[c]) =>
                  /\ ~HasNull(df'[c])
                  /\ \A i \in Index(df[c]) :
                        ~IsNull(df[c], i) => SameCell(df'[c], df[c], i)]_vars

-----------------------------------------------------------------------------
(* Properties of split_csv (checked under SplitSpec) *)

\* the rows of the parts numbered in S, in increasing part number
RECURSIVE ConcatParts(_, _)
ConcatParts(p, S) ==
    IF S = {} THEN <<>> ELSE p[SetMin(S)] \o ConcatParts(p, S \ {SetMin(S)})

RowsOf(part) == {part[j] : j \in DOMAIN part}

CeilOf(R, N) == CHOOSE c \in 0..R : c * N >= R /\ \A b \in 0..(c - 1) : b * N < R

(* C5: when the primary path of split_csv completes for R rows and N       *)
(* splits, it has written the N parts part_1..part_N and, with             *)
(* c = ceil(R/N), part n holds the consecutive rows (n-1)*c+1 .. min(n*c,  *)
(* R) of the input, that is max(0, min(c, R-(n-1)*c)) rows: c rows for     *)
(* every part but the last and R-(N-1)*c for the last whenever (N-1)*c <=  *)
(* R, and otherwise fewer than c rows or none from the part where the rows *)
(* run out.  100 rows with N = 12 give 11 parts of 9 rows, one of 1 row.   *)
C5_SplitSizes ==
    (split_pc = "done" /\ path = "primary") =>
        LET rows == ParsedRows(input_file)
            R == Len(rows)
            N == num_splits
            c == CeilOf(R, N)
        IN /\ written = 1..N
           /\ \A n \in 1..N :
                 /\ parts[n] = SubSeq(rows, (n - 1) * c + 1, Min(n * c, R))
                 /\ Len(parts[n]) = Max(0, Min(c, R - (n - 1) * c))
           /\ (N - 1) * c <= R =>
                 /\ \A n \in 1..(N - 1) : Len(parts[n]) = c
                 /\ Len(parts[N]) = R - (N - 1) * c
           /\ input_file = HundredRows =>
                 /\ \A n \in 1..11 : Len(parts[n]) = 9
                 /\ Len(parts[12]) = 1

\* the primary path has completed where the rows run out before the last
\* part: a part of fewer than c rows is followed by an empty part
C5_Witness ==
    /\ split_pc = "done"
    /\ path = "primary"
    /\ Len(ParsedRows(input_file)) = 5
    /\ num_splits = 4
    /\ Len(parts[3]) = 1
    /\ parts[4] = <<>>

(* C5 as the specification words it: every part but the last holds        *)
(* exactly ceil(R/N) rows and the last holds R - (N-1)*ceil(R/N).          *)
C5_AsWritten ==
    (split_pc = "done" /\ path = "primary") =>
        LET R == Len(ParsedRows(input_file))
            N == num_splits
            c == CeilOf(R, N)
        IN /\ written = 1..N
           /\ \A n \in 1..(N - 1) : Len(parts[n]) = c
           /\ Len(parts[N]) = R - (N - 1) * c

-----------------------------------------------------------------------------
(* Properties of the cleaning pipeline, continued (checked under Spec) *)

\* min(max(v, lo), hi) with the comparisons of float64
Clamp(v, lo, hi) == IF FLt(v, lo) THEN lo ELSE IF FGt(v, hi) THEN hi ELSE v

(* C6: handle_outliers replaces every value v of every numeric column     *)
(* (for which no exception was raised) by                                  *)
(* min(max(v, lo), hi), where Q1 and Q3 are the linearly interpolated      *)
(* quartiles of the column on entry, lo = Q1 - 1.5*(Q3-Q1) and             *)
(* hi = Q3 + 1.5*(Q3-Q1); the outlier count is the number of values        *)
(* changed; when Q3 = Q1 every value becomes Q1; and depth = [1..9, 100]   *)
(* gives Q1 = 3.25, Q3 = 7.75, bounds [-3.5, 14.5], 100 capped to 14.5 and *)
(* one outlier.                                                            *)
C6_CappingResult ==
    [][pc = "handle_outliers" =>
          \A c \in DOMAIN df :
              (df[c].dtype = "number" /\ [step |-> "handle_outliers", col |-> c] \notin col_errors') =>
                  LET v == df[c].vals
                      Q1 == Quantile(v, 1)
                      Q3 == Quantile(v, 3)
                      IQR == FSub(Q3, Q1)
                      lo == FSub(Q1, FMul(IQR, 3, 2))
                      hi == FAdd(Q3, FMul(IQR, 3, 2))
                      entry == outlier_log'[c][1]
                  IN /\ df'[c].dtype = "number"
                     /\ DOMAIN df'[c].vals = DOMAIN v
                     /\ \A i \in DOMAIN v : df'[c].vals[i] = Clamp(v[i], lo, hi)
                     /\ entry.n_outliers = Cardinality({i \in DOMAIN v : df'[c].vals[i] # v[i]})
                     /\ entry.lower_bound = lo /\ entry.upper_bound = hi
                     /\ IQR = 0 => \A i \in DOMAIN v : notnull(v[i]) => df'[c].vals[i] = Q1
                     /\ file = DepthScenario =>
                           /\ Q1 = (13 * Scale) \div 4
                           /\ Q3 = (31 * Scale) \div 4
                           /\ lo = 0 - ((7 * Scale) \div 2)
                           /\ hi = (29 * Scale) \div 2
                           /\ df'[c].vals[10] = (29 * Scale) \div 2
                           /\ \A i \in 1..9 : df'[c].vals[i] = i * Scale
                           /\ entry.n_outliers = 1]_vars

\* the depth scenario after handle_outliers: 100 has been capped to 14.5
C6_Witness ==
    /\ file = DepthScenario
    /\ pc = "convert_data_types"
    /\ original_df[1].vals[10] = 100 * Scale
    /\ df[1].vals[10] = (29 * Scale) \div 2
    /\ outlier_log[1] # <<>>
    /\ outlier_log[1][1].n_outliers = 1

(* C7: once handle_outliers has capped a numeric column, applying it a    *)
(* second time, when the column's quartiles Q1 and Q3 are still those of   *)
(* the first capping, changes no value and finds zero outliers.            *)
C7_CappingIdempotent ==
    pc = "convert_data_types" =>
        \A c \in DOMAIN df :
            (/\ df[c].dtype = "number"
             /\ outlier_log[c] # <<>>
             /\ Bounds(df[c].vals).Q1 = outlier_log[c][1].Q1
             /\ Bounds(df[c].vals).Q3 = outlier_log[c][1].Q3) =>
                /\ CapColumn(df[c].vals) = df[c].vals
                /\ OutlierEntry(df[c]).n_outliers = 0

\* a column where the first capping changed a value and left the quartiles
\* as they were
C7_Witness ==
    /\ pc = "convert_data_types"
    /\ \E c \in DOMAIN df :
          /\ df[c].dtype = "number"
          /\ outlier_log[c] # <<>>
          /\ outlier_log[c][1].n_outliers > 0
          /\ df[c].vals # original_df[c].vals
          /\ Bounds(df[c].vals).Q1 = outlier_log[c][1].Q1
          /\ Bounds(df[c].vals).Q3 = outlier_log[c][1].Q3
          /\ IsFinite(outlier_log[c][1].Q1)

\* the most frequent non-missing values of a text column
MostFrequent(text) ==
    LET present == {text[i] : i \in DOMAIN text} \ {""}
        freq(v) == Cardinality({i \in DOMAIN text : text[i] = v})
    IN {v \in present : \A w \in present : freq(w) <= freq(v)}

\* a text column with a missing and a non-missing cell
PartlyMissing(col) ==
    /\ col.dtype = "object"
    /\ \E i \in DOMAIN col.text : col.text[i] = ""
    /\ \E i \in DOMAIN col.text : col.text[i] # ""

(* C8: impute_missing_values, when it returns, fills every missing cell of *)
(* a text column that has a missing and a non-missing cell with the most   *)
(* frequent                                                                *)
(* non-missing value of the column and, when several values are equally    *)
(* frequent, with the one that sorts first (not the one met first in the   *)
(* column); the other cells keep their value; status = [LC, LC, EN,        *)
(* missing] has its missing cell filled with LC.                           *)
C8_ModeImputation ==
    [][(pc = "impute_missing_values" /\ pc' = "knn_imputation") =>
          \A c \in DOMAIN df :
              PartlyMissing(df[c]) =>
                  /\ df'[c].dtype = "object"
                  /\ DOMAIN df'[c].text = DOMAIN df[c].text
                  /\ \A i \in DOMAIN df[c].text :
                        IF df[c].text[i] = ""
                        THEN /\ df'[c].text[i] \in MostFrequent(df[c].text)
                             /\ \A w \in MostFrequent(df[c].text) :
                                   SortRank(df'[c].text[i]) <= SortRank(w)
                        ELSE df'[c].text[i] = df[c].text[i]
                  /\ file = StatusScenario => df'[c].text = <<"LC", "LC", "EN", "LC">>]_vars

\* a text column whose two most frequent values were equally frequent, the
\* one met first sorting last, has had its missing cell filled
C8_Witness ==
    /\ pc = "knn_imputation"
    /\ file.cells = << <<"LC", "EN", "">> >>
    /\ df[1].text = <<"LC", "EN", "EN">>

(* C8 as the specification words it, "first" read as first in the column: *)
(* the fill value is the most frequent value that occurs first.            *)
C8_FirstOnTies ==
    [][(pc = "impute_missing_values" /\ pc' = "knn_imputation") =>
          \A c \in DOMAIN df :
              PartlyMissing(df[c]) =>
                  \A i \in DOMAIN df[c].text :
                      df[c].text[i] = "" =>
                          /\ df'[c].text[i] \in MostFrequent(df[c].text)
                          /\ \A w \in MostFrequent(df[c].text) :
                                SetMin({j \in DOMAIN df[c].text : df[c].text[j] = df'[c].text[i]})
                                    <= SetMin({j \in DOMAIN df[c].text : df[c].text[j] = w})]_vars

\* the order in which clean_data runs its steps
StepAfter(step) ==
    CASE step = "impute_missing_values" -> "knn_imputation"
      [] step = "knn_imputation" -> "handle_outliers"
      [] step = "handle_outliers" -> "convert_data_types"
      [] step = "convert_data_types" -> "generate_cleaning_report"
      [] step = "generate_cleaning_report" -> "save_cleaned_data"
      [] OTHER -> "done"

LoadedNumericData ==
    LET replaced == [c \in NumericCols(original_df) |-> ReplaceInf(original_df[c].vals)]
    IN [c \in KeptCols(replaced) |-> replaced[c]]

(* C10: after a successful knn_imputation every cell of a numeric column  *)
(* that was missing at load (the column not being entirely missing) holds  *)
(* the k-nearest-neighbour estimate, k = min(5, row_count - 1), computed   *)
(* over the numeric columns jointly, not the column mean.                  *)
C10_KnnReplacesMean ==
    (pc = "handle_outliers" /\ knn_log = "completed") =>
        \A c \in DOMAIN LoadedNumericData :
            \A i \in DOMAIN LoadedNumericData[c] :
                isnull(original_df[c].vals[i]) =>
                    df[c].vals[i] = KnnEstimate(LoadedNumericData,
                                                Min(NNeighbors, RowCount(original_df) - 1), i, c)

-----------------------------------------------------------------------------
(* Properties of the analyzers (checked under AnalyzerSpec) *)

\* the sections of a pipeline, as a set
SectionSet(pipeline) == {Sections(pipeline)[k] : k \in DOMAIN Sections(pipeline)}

(* C11: in run_analysis and in run_complete_analysis an error raised      *)
(* inside one section never keeps the later sections from running: when    *)
(* the pipeline method has ended, by returning or by an exception, every   *)
(* one of its sections has been started.                                   *)
C11_EverySectionStarted ==
    an_pc \in {"returned", "raised"} => an_started = SectionSet(an_input.pipeline)

\* the columns whose absence the claim says a section of run_analysis
\* tolerates: those the section looks up
DependsOn(section) ==
    CASE section = "taxonomic_analysis" -> TaxonomicLevels
      [] section = "conservation_status_analysis" -> {"iucnRedListCategory"}
      [] section = "temporal_analysis" -> {"eventDate"}
      [] section = "geographic_distribution" -> {"stateProvince"}
      [] section = "generate_summary_report" -> SummaryColumns
      [] OTHER -> {}

(* C12: in every section of run_analysis, when a column the section       *)
(* depends on is absent from the dataset the section raises no error: it   *)
(* returns and the pipeline goes on with the next section.                 *)
C12_AbsentColumnIsNoError ==
    [][\A section \in SectionSet("run_analysis") :
          (/\ an_input.pipeline = "run_analysis"
           /\ an_pc = section
           /\ ~(DependsOn(section) \subseteq an_input.columns)) =>
              /\ an_pc' = SectionAfter("run_analysis", section)
              /\ an_error' = ""]_vars

-----------------------------------------------------------------------------
(* Properties of the cleaning pipeline: errors and snapshots (under Spec) *)

\* what a step that loops over the columns makes of one column
Processed(step, col) ==
    CASE step = "impute_missing_values" -> ImputeColumn(col)
      [] step = "handle_outliers" ->
            IF col.dtype = "number" THEN [col EXCEPT !.vals = CapColumn(col.vals)] ELSE col
      [] step = "convert_data_types" -> ConvertColumn(col)

ColumnSteps == {"impute_missing_values", "handle_outliers", "convert_data_types"}

(* C13: in impute_missing_values, handle_outliers and convert_data_types  *)
(* an error raised while one column is processed never aborts the          *)
(* processing of the other columns: the step ends normally, every other    *)
(* column has been processed, the columns processed before the error       *)
(* included.                                                               *)
C13_ColumnIsolation ==
    [][(pc \in ColumnSteps /\ col_errors' # col_errors) =>
          /\ pc' = StepAfter(pc)
          /\ \A c \in DOMAIN df :
                [step |-> pc, col |-> c] \notin col_errors' =>
                    df'[c] = Processed(pc, df[c])]_vars

-----------------------------------------------------------------------------
(* Properties of split_csv, continued (checked under SplitSpec) *)

\* the positions of the primary path
PrimarySteps == {"detect", "read", "mkdir", "write"}

(* C14: whenever the primary path of split_csv fails, at any of its       *)
(* steps, the chunked fallback starts, once, and reads the file with the   *)
(* delimiter the primary path detected; the fallback is never started a    *)
(* second time, and split_csv ends in its own code ("done", or "failed"    *)
(* after the message of the inner except clause).                          *)
C14_FallbackOnce ==
    [][/\ (path = "primary" /\ path' = "fallback") =>
              /\ split_pc \in PrimarySteps
              /\ split_pc' = "fallback_count"
              /\ delimiter' \in {delimiters[j] : j \in DOMAIN delimiters}
       /\ path = "fallback" => (path' = "fallback" /\ split_pc' # "fallback_count")
       /\ split_pc' \in PrimarySteps \cup {"fallback_count", "fallback_read",
                                          "fallback_chunk", "fallback_split",
                                          "fallback_last", "done", "failed"}]_vars

-----------------------------------------------------------------------------
(* Properties of DataCleaner, continued (checked under Spec) *)

(* C15: once the file is loaded, original_df holds the frame as it was     *)
(* read, whatever the cleaning steps do to df; generate_cleaning_report    *)
(* reads both frames and changes neither.                                   *)
C15_OriginalImmutable ==
    /\ [](pc # "idle" => original_df = read_csv(file))
    /\ [][pc = "generate_cleaning_report" =>
             (df' = df /\ original_df' = original_df /\ report' # report)]_vars

\* the pipeline has finished, with a report, on a frame the steps changed
C15_Witness ==
    /\ pc = "done"
    /\ report # <<>>
    /\ df # original_df
    /\ original_df = read_csv(file)

-----------------------------------------------------------------------------
(* Properties of split_csv: the delimiter (checked under SplitSpec) *)

(* C16: the delimiter split_csv detects is, among comma, tab, semicolon    *)
(* and pipe in that order, the first one whose number of occurrences in    *)
(* the first line of the file is the greatest: no candidate occurs more    *)
(* often, every earlier candidate occurs less often, and a first line      *)
(* with none of the four gives the comma.                                  *)
C16_DelimiterChoice ==
    [][(split_pc = "detect" /\ split_pc' = "read") =>
          LET order == <<",", "\t", ";", "|">>
              count(k) == CountOf(input_file.first_line, order[k])
          IN /\ \E k \in 1..4 :
                   /\ delimiter' = order[k]
                   /\ \A j \in 1..4 : count(j) <= count(k)
                   /\ \A j \in 1..(k - 1) : count(j) < count(k)
             /\ (\A j \in 1..4 : count(j) = 0) => delimiter' = ","]_vars

\* tab and semicolon occur equally often, more often than the others, and
\* the tab was chosen
C16_Witness ==
    /\ split_pc = "read"
    /\ delimiter = "\t"
    /\ CountOf(input_file.first_line, "\t") > 0
    /\ CountOf(input_file.first_line, ";") = CountOf(input_file.first_line, "\t")

====
